---- MODULE Spec2Model ----
(***************************************************************************)
(* Model of src/main.py: the CreditCalculator (rate factor, maximum        *)
(* installment, credit limit, amortization schedule) and the Streamlit     *)
(* session flow of main().                                                 *)
(*                                                                         *)
(* Units.  Currency amounts are integers in cents.  periodic_rate is an    *)
(* integer in millionths (round(.., 6) in the source).  taeg is an integer *)
(* in ten-thousandths.  Python computes in binary floating point and       *)
(* rounds the result with round(x, 2); the model computes the same         *)
(* expressions as exact fractions of arbitrary-size naturals and rounds    *)
(* the fraction to the nearest integer.  When the exact fraction lies      *)
(* exactly half way between two cents the float that Python rounds is a    *)
(* neighbour of the half-way value and either cent can come out            *)
(* (round(2500*0.011554, 2) = 28.89, round(17500*0.011554, 2) = 202.19),   *)
(* so every operation takes the direction of such ties as an input `up`    *)
(* that the actions choose nondeterministically.                           *)
(***************************************************************************)
EXTENDS Integers, Naturals, Sequences, FiniteSets, TLC

VARIABLES
    taeg,               \* CreditCalculator.taeg, ten-thousandths
    periodic_rate,      \* CreditCalculator.periodic_rate, millionths
    call,               \* the calculator call in progress / last made
    outcome,            \* what that call returned or raised
    credit_limit,       \* st.session_state.credit_limit (None or <<cents>>)
    dfs,                \* st.session_state.dfs
    monthly_repayment,  \* st.session_state.monthly_repayment
    message,            \* st.success / st.error shown by the last run
    financed,           \* history: txn_amt of each plan appended to dfs
    computed_limit      \* history: value returned by the last compute_limit

vars ==
    <<taeg, periodic_rate, call, outcome, credit_limit, dfs,
      monthly_repayment, message, financed, computed_limit>>

\* Python's None; a value v that may be None is held as <<v>>
None == <<>>

Some(v) == <<v>>

-----------------------------------------------------------------------------
(* Arbitrary-size naturals: little-endian sequences of limbs in            *)
(* 0..LimbBase-1 without leading zero limbs; <<>> is zero.  They stand for *)
(* the intermediate values of the float expressions, which do not fit the  *)
(* model checker's machine integers.                                       *)

LimbBase == 100

RECURSIVE BigOf(_)
BigOf(n) ==
    IF n = 0 THEN <<>> ELSE <<n % LimbBase>> \o BigOf(n \div LimbBase)

RECURSIVE BigTrim(_)
BigTrim(a) ==
    IF Len(a) > 0 /\ a[Len(a)] = 0 THEN BigTrim(SubSeq(a, 1, Len(a) - 1)) ELSE a

\* limbs i..j of a * s + carry, and the carry out of limb j; the range is
\* halved at each step to keep the nesting logarithmic in the length
RECURSIVE BigMulRange(_, _, _, _, _)
BigMulRange(a, s, i, j, carry) ==
    IF i = j
    THEN LET t == a[i] * s + carry
         IN  [limbs |-> <<t % LimbBase>>, carry |-> t \div LimbBase]
    ELSE LET mid == (i + j) \div 2
             lo  == BigMulRange(a, s, i, mid, carry)
             hi  == BigMulRange(a, s, mid + 1, j, lo.carry)
         IN  [limbs |-> lo.limbs \o hi.limbs, carry |-> hi.carry]

\* a * s for a machine-size natural s
BigMulSmall(a, s) ==
    IF s = 0 \/ Len(a) = 0
    THEN <<>>
    ELSE LET r == BigMulRange(a, s, 1, Len(a), 0)
         IN  r.limbs \o BigOf(r.carry)

\* limbs i..j of a - b - borrow, and the borrow out of limb j
RECURSIVE BigSubRange(_, _, _, _, _)
BigSubRange(a, b, i, j, borrow) ==
    IF i = j
    THEN LET t == a[i] - (IF i <= Len(b) THEN b[i] ELSE 0) - borrow
         IN  IF t < 0
             THEN [limbs |-> <<t + LimbBase>>, borrow |-> 1]
             ELSE [limbs |-> <<t>>, borrow |-> 0]
    ELSE LET mid == (i + j) \div 2
             lo  == BigSubRange(a, b, i, mid, borrow)
             hi  == BigSubRange(a, b, mid + 1, j, lo.borrow)
         IN  [limbs |-> lo.limbs \o hi.limbs, borrow |-> hi.borrow]

\* a - b, for a >= b
BigSub(a, b) ==
    IF Len(a) = 0 THEN <<>> ELSE BigTrim(BigSubRange(a, b, 1, Len(a), 0).limbs)

\* limbs i..j of a against the same limbs of b, the high limbs deciding
RECURSIVE BigCmpRange(_, _, _, _)
BigCmpRange(a, b, i, j) ==
    IF i = j
    THEN IF a[i] < b[i] THEN -1 ELSE IF a[i] > b[i] THEN 1 ELSE 0
    ELSE LET mid == (i + j) \div 2
             hi  == BigCmpRange(a, b, mid + 1, j)
         IN  IF hi # 0 THEN hi ELSE BigCmpRange(a, b, i, mid)

\* -1, 0, 1 as a < b, a = b, a > b
BigCmp(a, b) ==
    IF Len(a) < Len(b) THEN -1
    ELSE IF Len(a) > Len(b) THEN 1
    ELSE IF Len(a) = 0 THEN 0
    ELSE BigCmpRange(a, b, 1, Len(a))

\* a * b**k for a machine-size natural b, the exponent halved at each step
RECURSIVE BigTimesPow(_, _, _)
BigTimesPow(a, b, k) ==
    IF Len(a) = 0 \/ k = 0 THEN a
    ELSE IF k = 1 THEN BigMulSmall(a, b)
    ELSE BigTimesPow(BigTimesPow(a, b, k \div 2), b, k - k \div 2)

BigPow(b, k) ==
    BigTimesPow(BigOf(1), b, k)

\* the largest q in lo..hi with q * den <= num (lo * den <= num assumed)
RECURSIVE BigFloorDiv(_, _, _, _)
BigFloorDiv(num, den, lo, hi) ==
    IF lo >= hi
    THEN lo
    ELSE LET mid == lo + (hi - lo + 1) \div 2
         IN  IF BigCmp(BigMulSmall(den, mid), num) <= 0
             THEN BigFloorDiv(num, den, mid, hi)
             ELSE BigFloorDiv(num, den, lo, mid - 1)

\* num / den rounded to the nearest natural, known to be at most hi;
\* an exact half goes up when `up`, down otherwise
BigRoundDiv(num, den, hi, up) ==
    LET q    == BigFloorDiv(num, den, 0, hi)
        rem2 == BigMulSmall(BigSub(num, BigMulSmall(den, q)), 2)
        c    == BigCmp(rem2, den)
    IN  IF c > 0 \/ (c = 0 /\ up) THEN q + 1 ELSE q

Abs(x) ==
    IF x < 0 THEN -x ELSE x

\* quotients and multipliers of the arbitrary-size arithmetic stay below this
MaxSmall == 20000000

\* n / d for machine-size naturals, rounded like BigRoundDiv
RoundDivInt(n, d, up) ==
    LET q == n \div d
        r == n % d
    IN  IF 2 * r > d \/ (2 * r = d /\ up) THEN q + 1 ELSE q

\* a fraction: (-1 if neg) * num / den, num and den arbitrary-size naturals
Frac(neg, num, den) ==
    [neg |-> neg, num |-> num, den |-> den]

\* round(100 * f), the fraction f in currency units rounded to cents when
\* the fraction is already scaled to cents
RoundFrac(f, up) ==
    LET q == BigRoundDiv(f.num, f.den, MaxSmall, up)
    IN  IF f.neg THEN -q ELSE q

Return(v) ==
    [kind |-> "return", value |-> v]

Raise(e) ==
    [kind |-> "raise", error |-> e]

-----------------------------------------------------------------------------
(* Constants of src/main.py                                                *)

\* percentages in hundredths
PERCENTAGE_BY_CREDIT_SCORE ==
    [A |-> 100, B |-> 75, C |-> 50, D |-> 25, E |-> 10]

\* currency units
MAX_LIMITS ==
    [A |-> 30000, others |-> 20000]

\* 0.15 in ten-thousandths
TAEG == 1500

TaegScale == 10000

\* one, in the unit of periodic_rate
RateScale == 1000000

\* the period of 30 days over the year of 365 days, 30 / 365 in lowest terms
PeriodDays == 6

YearDays == 73

\* the largest y in lo..hi with ((2y - 1) / (2 RateScale)) ** YearDays at most
\* bound, i.e. with y / RateScale - 1 / (2 RateScale) at most the YearDays-th
\* root of bound: the root rounded to millionths
RECURSIVE RoundedRoot(_, _, _)
RoundedRoot(bound, lo, hi) ==
    IF lo >= hi
    THEN lo
    ELSE LET mid == lo + (hi - lo + 1) \div 2
         IN  IF BigCmp(BigTimesPow(BigPow(2 * mid - 1, YearDays),
                                   TaegScale, PeriodDays), bound) <= 0
             THEN RoundedRoot(bound, mid, hi)
             ELSE RoundedRoot(bound, lo, mid - 1)

\* round((1 + t) ** (30 / 365) - 1, 6) in millionths, t in ten-thousandths
PeriodicRateOf(t) ==
    RoundedRoot(BigTimesPow(BigPow(2 * RateScale, YearDays),
                            TaegScale + t, PeriodDays),
                RateScale, RateScale + 100 * t) - RateScale

PERIODIC_RATE ==
    PeriodicRateOf(TAEG)

-----------------------------------------------------------------------------
(* CreditCalculator                                                        *)

\* (1 + rate) ** periods as the pair n / d, for any integer periods
PowPair(rate, periods) ==
    IF periods >= 0
    THEN [n |-> BigPow(RateScale + rate, periods), d |-> BigPow(RateScale, periods)]
    ELSE [n |-> BigPow(RateScale, -periods), d |-> BigPow(RateScale + rate, -periods)]

\* the mutant of compute_rate_factor: rate / ((1+rate)**periods - 1)
compute_rate_factor_sinking(rate, periods) ==
    LET pw == PowPair(rate, periods)
        c  == BigCmp(pw.n, pw.d)
    IN  IF c = 0
        THEN Raise("ZeroDivisionError")
        ELSE Return(Frac(c < 0,
                         BigMulSmall(pw.d, rate),
                         BigMulSmall(IF c > 0 THEN BigSub(pw.n, pw.d)
                                              ELSE BigSub(pw.d, pw.n),
                                     RateScale)))

\* rate * (1+rate)**periods / ((1+rate)**periods - 1); the float division
\* raises ZeroDivisionError when the denominator is 0.0
compute_rate_factor(rate, periods) ==
    LET pw == PowPair(rate, periods)
        c  == BigCmp(pw.n, pw.d)
    IN  IF c = 0
        THEN Raise("ZeroDivisionError")
        ELSE Return(Frac(c < 0,
                         BigMulSmall(pw.n, rate),
                         BigMulSmall(IF c > 0 THEN BigSub(pw.n, pw.d)
                                              ELSE BigSub(pw.d, pw.n),
                                     RateScale)))

\* the mutant of compute_max_installment: an unrecognized score falls back to
\* the lowest percentage and the common ceiling
compute_max_installment_default(rate, credit_score, periods) ==
    LET max_limit   == IF credit_score = "A" THEN MAX_LIMITS["A"]
                                             ELSE MAX_LIMITS["others"]
        percentage  == IF credit_score \in DOMAIN PERCENTAGE_BY_CREDIT_SCORE
                       THEN PERCENTAGE_BY_CREDIT_SCORE[credit_score]
                       ELSE PERCENTAGE_BY_CREDIT_SCORE["E"]
        rate_factor == compute_rate_factor(rate, periods)
    IN  IF rate_factor.kind = "raise"
        THEN rate_factor
        ELSE Return(Frac(rate_factor.value.neg,
                         BigMulSmall(rate_factor.value.num,
                                     max_limit * percentage),
                         rate_factor.value.den))

\* max_limit * percentage * rate_factor, as a fraction of cents
compute_max_installment(rate, credit_score, periods) ==
    IF credit_score \notin DOMAIN PERCENTAGE_BY_CREDIT_SCORE
    THEN Raise("ValueError")
    ELSE LET max_limit   == IF credit_score = "A" THEN MAX_LIMITS["A"]
                                                 ELSE MAX_LIMITS["others"]
             percentage  == PERCENTAGE_BY_CREDIT_SCORE[credit_score]
             rate_factor == compute_rate_factor(rate, periods)
         IN  IF rate_factor.kind = "raise"
             THEN rate_factor
             ELSE Return(Frac(rate_factor.value.neg,
                              BigMulSmall(rate_factor.value.num,
                                          max_limit * percentage),
                              rate_factor.value.den))

\* min(capacity, max_installment) rounded to cents; capacity is in cents
FinalInstallment(capacity, max_installment, up) ==
    IF \/ max_installment.neg /\ max_installment.num # <<>>
       \/ /\ ~max_installment.neg
          /\ BigCmp(max_installment.num,
                    BigMulSmall(max_installment.den, capacity)) < 0
    THEN RoundFrac(max_installment, up)
    ELSE capacity

\* the mutant of PresentValue: (1+rate)**-periods - 1 for 1 - (1+rate)**-periods
PresentValueNegated(rate, final_installment, periods, up) ==
    LET pw == PowPair(rate, periods)
        c  == BigCmp(pw.n, pw.d)
    IN  RoundFrac(Frac((final_installment < 0) # (c > 0),
                       BigMulSmall(
                           BigMulSmall(IF c > 0 THEN BigSub(pw.n, pw.d)
                                                ELSE BigSub(pw.d, pw.n),
                                       Abs(final_installment)),
                           RateScale),
                       BigMulSmall(pw.n, rate)), up)

\* round(final_installment * (1 - (1+rate)**-periods) / rate, 2)
PresentValue(rate, final_installment, periods, up) ==
    LET pw == PowPair(rate, periods)
        c  == BigCmp(pw.n, pw.d)
    IN  RoundFrac(Frac((final_installment < 0) # (c < 0),
                       BigMulSmall(
                           BigMulSmall(IF c > 0 THEN BigSub(pw.n, pw.d)
                                                ELSE BigSub(pw.d, pw.n),
                                       Abs(final_installment)),
                           RateScale),
                       BigMulSmall(pw.n, rate)), up)

\* sum_inflow_6m in cents; the result in cents
compute_limit(rate, credit_score, sum_inflow_6m, periods, up) ==
    LET monthly_installment_capacity == RoundDivInt(sum_inflow_6m, 6 * 3, up)
        max_installment == compute_max_installment(rate, credit_score, periods)
    IN  IF max_installment.kind = "raise"
        THEN max_installment
        ELSE Return(PresentValue(rate,
                                 FinalInstallment(monthly_installment_capacity,
                                                  max_installment.value, up),
                                 periods, up))

\* the mutant of Interest: the rate taken as a percentage
InterestPercent(rate, amount, up) ==
    RoundFrac(Frac(amount < 0, BigMulSmall(BigOf(Abs(amount)), rate),
                   BigOf(RateScale \div 100)), up)

\* round(amount * rate, 2), amount in cents of either sign
Interest(rate, amount, up) ==
    RoundFrac(Frac(amount < 0, BigMulSmall(BigOf(Abs(amount)), rate),
                   BigOf(RateScale)), up)

\* the mutant of InstallmentRows: the remaining capital shown without max(0, ..)
RECURSIVE InstallmentRowsUnclamped(_, _, _, _, _, _)
InstallmentRowsUnclamped(rate, monthly_installment, amount, i, periods, up) ==
    IF i > periods
    THEN <<>>
    ELSE LET interest          == Interest(rate, amount, up)
             capital           == monthly_installment - interest
             remaining_capital == amount - capital
         IN  <<[number              |-> i,
                monthly_installment |-> monthly_installment,
                interest            |-> interest,
                capital             |-> capital,
                remaining_capital   |-> remaining_capital]>>
             \o InstallmentRowsUnclamped(rate, monthly_installment,
                                         remaining_capital, i + 1, periods, up)

\* the rows appended by iterations i..periods of the loop
RECURSIVE InstallmentRows(_, _, _, _, _, _)
InstallmentRows(rate, monthly_installment, amount, i, periods, up) ==
    IF i > periods
    THEN <<>>
    ELSE LET interest          == Interest(rate, amount, up)
             capital           == monthly_installment - interest
             remaining_capital == amount - capital
         IN  <<[number              |-> i,
                monthly_installment |-> monthly_installment,
                interest            |-> interest,
                capital             |-> capital,
                remaining_capital   |-> IF remaining_capital > 0
                                        THEN remaining_capital ELSE 0]>>
             \o InstallmentRows(rate, monthly_installment, remaining_capital,
                                i + 1, periods, up)

\* amount in cents (any sign); returns (monthly_installment, df)
compute_monthly_installments(rate, amount, periods, up) ==
    LET rate_factor == compute_rate_factor(rate, periods)
    IN  IF rate_factor.kind = "raise"
        THEN rate_factor
        ELSE LET monthly_installment ==
                     RoundFrac(Frac((amount < 0) # rate_factor.value.neg,
                                    BigMulSmall(rate_factor.value.num,
                                                Abs(amount)),
                                    rate_factor.value.den), up)
             IN  Return([monthly_installment |-> monthly_installment,
                         df |-> InstallmentRows(rate, monthly_installment,
                                                amount, 1, periods, up)])

-----------------------------------------------------------------------------
(* Calls of the calculator's four operations on CreditCalculator()         *)

\* periods range over -NegPeriods..MaxPeriods
NegPeriods == 1

MaxPeriods == 9

\* every amount of 0..MaxCents cents is financed
MaxCents == 30

\* larger amounts, in cents; 250000 and 1750000 put an interest exactly
\* half way between two cents
AmountSamples ==
    {12345, 250000, 900000, 1253895, 1750000, 1863558, 2115677, 2790585}

\* sum_inflow_6m is k * InflowStep cents for k up to MaxInflowSteps
MaxInflowSteps == 6

InflowStep == 9600011

\* small inflows, 9 and 27 exactly half way between two cents of capacity
InflowSamples ==
    {1, 9, 27, 600000}

Periods == (-NegPeriods)..MaxPeriods

Scores == {"A", "B", "C", "D", "E", "F", ""}

Amounts == (0..MaxCents) \cup AmountSamples

Inflows == {k * InflowStep : k \in 0..MaxInflowSteps} \cup InflowSamples

Idle == [op |-> "idle"]

NoOutcome == [kind |-> "none"]

\* the part of the state owned by the session flow
session == <<credit_limit, dfs, monthly_repayment, message, financed, computed_limit>>

\* CreditCalculator(): both arguments defaulted
Init ==
    /\ taeg = TAEG
    /\ periodic_rate = PERIODIC_RATE
    /\ call = Idle
    /\ outcome = NoOutcome
    /\ credit_limit = None
    /\ dfs = <<>>
    /\ monthly_repayment = None
    /\ message = {}
    /\ financed = <<>>
    /\ computed_limit = None

CallRateFactor(periods) ==
    /\ call = Idle
    /\ call' = [op |-> "compute_rate_factor", periods |-> periods]
    /\ outcome' = compute_rate_factor(periodic_rate, periods)
    /\ UNCHANGED <<taeg, periodic_rate, session>>

CallMaxInstallment(credit_score, periods) ==
    /\ call = Idle
    /\ call' = [op |-> "compute_max_installment",
                credit_score |-> credit_score, periods |-> periods]
    /\ outcome' = compute_max_installment(periodic_rate, credit_score, periods)
    /\ UNCHANGED <<taeg, periodic_rate, session>>

CallLimit(credit_score, sum_inflow_6m, periods, up) ==
    /\ call = Idle
    /\ call' = [op |-> "compute_limit", credit_score |-> credit_score,
                sum_inflow_6m |-> sum_inflow_6m, periods |-> periods]
    /\ outcome' = compute_limit(periodic_rate, credit_score, sum_inflow_6m,
                                periods, up)
    /\ UNCHANGED <<taeg, periodic_rate, session>>

CallMonthlyInstallments(amount, periods, up) ==
    /\ call = Idle
    /\ call' = [op |-> "compute_monthly_installments",
                amount |-> amount, periods |-> periods]
    /\ outcome' = compute_monthly_installments(periodic_rate, amount, periods, up)
    /\ UNCHANGED <<taeg, periodic_rate, session>>

\* the caller takes the result or the exception
Finish ==
    /\ call # Idle
    /\ call' = Idle
    /\ outcome' = NoOutcome
    /\ UNCHANGED <<taeg, periodic_rate, session>>

Next ==
    \/ \E p \in Periods : CallRateFactor(p)
    \/ \E g \in Scores, p \in Periods : CallMaxInstallment(g, p)
    \/ \E g \in Scores, x \in Inflows, p \in Periods, up \in BOOLEAN :
          CallLimit(g, x, p, up)
    \/ \E a \in Amounts, p \in Periods, up \in BOOLEAN :
          CallMonthlyInstallments(a, p, up)
    \/ Finish

Spec ==
    Init /\ [][Next]_vars

-----------------------------------------------------------------------------
(* Construction of calculators with given or defaulted arguments            *)

\* __init__(self, taeg=TAEG, periodic_rate=PERIODIC_RATE); an omitted
\* argument is None here
CreditCalculator(taeg_arg, periodic_rate_arg) ==
    [taeg          |-> IF taeg_arg = None THEN TAEG ELSE taeg_arg[1],
     periodic_rate |-> IF periodic_rate_arg = None THEN PERIODIC_RATE
                                                   ELSE periodic_rate_arg[1]]

\* annual rates given to the constructor, ten-thousandths
TaegValues == {500, 1000, 2000, 2500}

\* periodic rates given to the constructor, millionths
RateValues == {4018, 7864, 15098, 18510}

TaegArgs == {None} \cup {Some(t) : t \in TaegValues}

RateArgs == {None} \cup {Some(r) : r \in RateValues}

CtorMaxPeriods == 3

InitCtor ==
    /\ \E ta \in TaegArgs, ra \in RateArgs :
          \E calculator \in {CreditCalculator(ta, ra)} :
              /\ taeg = calculator.taeg
              /\ periodic_rate = calculator.periodic_rate
    /\ call = Idle
    /\ outcome = NoOutcome
    /\ credit_limit = None
    /\ dfs = <<>>
    /\ monthly_repayment = None
    /\ message = {}
    /\ financed = <<>>
    /\ computed_limit = None

\* a new calculator replaces the current one
Construct(taeg_arg, periodic_rate_arg) ==
    /\ call = Idle
    /\ \E calculator \in {CreditCalculator(taeg_arg, periodic_rate_arg)} :
          /\ taeg' = calculator.taeg
          /\ periodic_rate' = calculator.periodic_rate
    /\ UNCHANGED <<call, outcome, session>>

NextCtor ==
    \/ \E ta \in TaegArgs, ra \in RateArgs : Construct(ta, ra)
    \/ \E p \in 1..CtorMaxPeriods : CallRateFactor(p)
    \/ \E p \in 1..CtorMaxPeriods : CallMaxInstallment("A", p)
    \/ \E p \in 1..CtorMaxPeriods, up \in BOOLEAN : CallLimit("B", 600000, p, up)
    \/ \E p \in 1..CtorMaxPeriods, up \in BOOLEAN :
          CallMonthlyInstallments(900000, p, up)
    \/ Finish

SpecCtor ==
    InitCtor /\ [][NextCtor]_vars

-----------------------------------------------------------------------------
(* The session flow of main(): one action per run of the script            *)

\* number_payments: st.selectbox(.., [3, 6, 9])
NumberPayments == {3, 6, 9}

\* list(PERCENTAGE_BY_CREDIT_SCORE.keys())
SessionScores == DOMAIN PERCENTAGE_BY_CREDIT_SCORE

\* inflow: st.number_input(min_value=0.0), cents
SessionInflows == {0, 600000, 4000000}

\* txn_amt: st.number_input(min_value=0.0), cents
TxnAmounts == {0, 25000, 97732, 700000}

\* financing plans accumulated in one session
MaxPlans == 2

\* compute_limit(credit_score, inflow, 3) on a calculator of rate r, for
\* the inputs of the session
SessionLimit ==
    [r \in {PERIODIC_RATE}, g \in SessionScores, x \in SessionInflows,
     up \in BOOLEAN |-> compute_limit(r, g, x, 3, up)]

\* compute_monthly_installments(txn_amt, number_payments) on a calculator of
\* rate r, for the inputs of the session
SessionPlan ==
    [r \in {PERIODIC_RATE}, a \in TxnAmounts, n \in NumberPayments,
     up \in BOOLEAN |-> compute_monthly_installments(r, a, n, up)]

InitSession ==
    /\ taeg = TAEG
    /\ periodic_rate = PERIODIC_RATE
    /\ call = Idle
    /\ outcome = NoOutcome
    /\ credit_limit = None
    /\ dfs = <<>>
    /\ monthly_repayment = None
    /\ message = {}
    /\ financed = <<>>
    /\ computed_limit = None

\* calculator = CreditCalculator()
NewCalculator ==
    \E calculator \in {CreditCalculator(None, None)} :
        /\ taeg' = calculator.taeg
        /\ periodic_rate' = calculator.periodic_rate

\* a run with "Calculate Credit Limit" clicked; txn_amt is the value the
\* financing input holds during that run
CalculateCreditLimit(inflow, credit_score, txn_amt, up) ==
    /\ NewCalculator
    /\ call' = [op |-> "compute_limit", credit_score |-> credit_score,
                sum_inflow_6m |-> inflow, periods |-> 3]
    /\ outcome' = SessionLimit[periodic_rate', credit_score, inflow, up]
    /\ IF outcome'.kind = "return"
       THEN /\ credit_limit' = Some(outcome'.value)
            /\ computed_limit' = credit_limit'
            /\ message' = IF txn_amt > credit_limit'[1]
                          THEN {"limit", "exceeds"} ELSE {"limit"}
       ELSE /\ UNCHANGED <<credit_limit, computed_limit>>
            /\ message' = {"exception"}
    /\ UNCHANGED <<dfs, monthly_repayment, financed>>

\* a run with no button clicked and a financing amount above the limit
RejectFinancing(txn_amt) ==
    /\ credit_limit # None
    /\ txn_amt > credit_limit[1]
    /\ message' = {"exceeds"}
    /\ call' = Idle
    /\ outcome' = NoOutcome
    /\ UNCHANGED <<taeg, periodic_rate, credit_limit, dfs, monthly_repayment,
                   financed, computed_limit>>

\* the mutant of CalculateMonthlyInstallments: the button offered whatever
\* the financing amount
CalculateMonthlyInstallmentsUnguarded(txn_amt, number_payments, up) ==
    /\ credit_limit # None
    /\ Len(dfs) < MaxPlans
    /\ NewCalculator
    /\ call' = [op |-> "compute_monthly_installments",
                amount |-> txn_amt, periods |-> number_payments]
    /\ outcome' = SessionPlan[periodic_rate', txn_amt, number_payments, up]
    /\ monthly_repayment' = Some(outcome'.value.monthly_installment)
    /\ dfs' = Append(dfs, outcome'.value.df)
    /\ financed' = Append(financed, txn_amt)
    /\ credit_limit' = Some(credit_limit[1] - txn_amt)
    /\ message' = {"financed"}
    /\ UNCHANGED computed_limit

\* a run with "Calculate Monthly Installments" clicked; the button exists
\* only in the branch where txn_amt does not exceed the limit
CalculateMonthlyInstallments(txn_amt, number_payments, up) ==
    /\ credit_limit # None
    /\ ~(txn_amt > credit_limit[1])
    /\ Len(dfs) < MaxPlans
    /\ NewCalculator
    /\ call' = [op |-> "compute_monthly_installments",
                amount |-> txn_amt, periods |-> number_payments]
    /\ outcome' = SessionPlan[periodic_rate', txn_amt, number_payments, up]
    /\ IF outcome'.kind = "return"
       THEN /\ monthly_repayment' = Some(outcome'.value.monthly_installment)
            /\ dfs' = Append(dfs, outcome'.value.df)
            /\ financed' = Append(financed, txn_amt)
            /\ credit_limit' = Some(credit_limit[1] - txn_amt)
            /\ message' = {"financed"}
       ELSE /\ UNCHANGED <<monthly_repayment, dfs, financed, credit_limit>>
            /\ message' = {"exception"}
    /\ UNCHANGED computed_limit

NextSession ==
    \/ \E x \in SessionInflows, g \in SessionScores, a \in TxnAmounts,
          up \in BOOLEAN : CalculateCreditLimit(x, g, a, up)
    \/ \E a \in TxnAmounts : RejectFinancing(a)
    \/ \E a \in TxnAmounts, n \in NumberPayments, up \in BOOLEAN :
          CalculateMonthlyInstallments(a, n, up)

SpecSession ==
    InitSession /\ [][NextSession]_vars
-----------------------------------------------------------------------------
(* Properties                                                              *)

ValidScores == {"A", "B", "C", "D", "E"}

RECURSIVE SumCapital(_)
SumCapital(df) ==
    IF df = <<>> THEN 0 ELSE df[1].capital + SumCapital(Tail(df))

RECURSIVE SumSeq(_)
SumSeq(q) ==
    IF q = <<>> THEN 0 ELSE q[1] + SumSeq(Tail(q))

\* the balance the loop carries out of row i: the financed amount less the
\* capital of rows 1..i
Carried(amount, df, i) ==
    amount - SumCapital(SubSeq(df, 1, i))

\* the call at hand is compute_monthly_installments(amount >= 0, periods >= 1)
ScheduleCall ==
    /\ call.op = "compute_monthly_installments"
    /\ call.amount >= 0
    /\ call.periods >= 1

\* C1: for every periods < 1 each of the four operations ends in an error
\* and returns no value.
C1_PeriodsBelowOneRaise ==
    (call # Idle /\ call.periods < 1) => outcome.kind = "raise"

\* C2: for every grade outside {A, B, C, D, E}, compute_max_installment and
\* compute_limit end in the invalid-grade error and return no value.
C2_InvalidGradeRaises ==
    (/\ call.op \in {"compute_max_installment", "compute_limit"}
     /\ call.credit_score \notin ValidScores)
        => outcome = Raise("ValueError")

C2_Witness ==
    /\ call.op = "compute_limit"
    /\ call.credit_score = "F"
    /\ call.periods = 3
    /\ call.sum_inflow_6m = 600000
    /\ outcome.kind = "raise"

\* C3: for amount >= 0 and periods in 1..9 the schedule amortizes the amount:
\* the Capital column sums to the amount within 0.10 and the last row's
\* Remaining Capital is within 0.10 of 0.
C3_ScheduleAmortizes ==
    (ScheduleCall /\ call.periods <= 9) =>
        /\ outcome.kind = "return"
        /\ Len(outcome.value.df) = call.periods
        /\ Abs(SumCapital(outcome.value.df) - call.amount) <= 10
        /\ outcome.value.df[call.periods].remaining_capital \in 0..10

C3_Witness ==
    /\ ScheduleCall
    /\ call.amount = 2115677
    /\ call.periods = 9
    /\ outcome.kind = "return"
    /\ call.amount - SumCapital(outcome.value.df) = 8
    /\ outcome.value.df[9].remaining_capital = 8

\* compute_limit on CreditCalculator() for the valid scores, the periods
\* from 1 and the inflows of the calls
LimitTable ==
    [r \in {PERIODIC_RATE}, g \in ValidScores, x \in Inflows,
     p \in 1..MaxPeriods, up \in BOOLEAN |-> compute_limit(r, g, x, p, up).value]

\* C4: for a fixed valid grade and periods >= 1, compute_limit is
\* non-decreasing in sum_inflow_6m: no smaller inflow yields a larger limit
\* and no larger inflow a smaller one.
C4_LimitMonotone ==
    (/\ call.op = "compute_limit"
     /\ call.credit_score \in ValidScores
     /\ call.periods >= 1)
        => /\ outcome.kind = "return"
           /\ \A y \in Inflows, up \in BOOLEAN :
                 LET other == LimitTable[periodic_rate, call.credit_score, y,
                                         call.periods, up]
                 IN  /\ y < call.sum_inflow_6m => other <= outcome.value
                     /\ y > call.sum_inflow_6m => other >= outcome.value

\* the grade ceiling binds: twice the inflow gives the same limit, a small
\* inflow a smaller one
C4_Witness ==
    /\ call.op = "compute_limit"
    /\ call.credit_score = "E"
    /\ call.periods = 3
    /\ call.sum_inflow_6m = 2 * InflowStep
    /\ outcome.kind = "return"
    /\ outcome.value = LimitTable[periodic_rate, "E", 4 * InflowStep, 3, FALSE]
    /\ outcome.value > LimitTable[periodic_rate, "E", 600000, 3, FALSE]
    /\ LimitTable[periodic_rate, "E", 600000, 3, FALSE] > 0

\* C5: in every row of every schedule (amount >= 0, periods >= 1) Monthly
\* Installment = Interest + Capital to the cent, and the Remaining Capital
\* shown is never negative.
C5_RowsBalance ==
    ScheduleCall =>
        /\ outcome.kind = "return"
        /\ \A i \in 1..Len(outcome.value.df) :
              LET row == outcome.value.df[i]
              IN  /\ row.monthly_installment = row.interest + row.capital
                  /\ row.monthly_installment = outcome.value.monthly_installment
                  /\ row.remaining_capital >= 0

\* a schedule whose balance went below zero, shown as 0
C5_Witness ==
    /\ ScheduleCall
    /\ outcome.kind = "return"
    /\ Carried(call.amount, outcome.value.df, call.periods) < 0
    /\ outcome.value.df[call.periods].remaining_capital = 0
    /\ outcome.value.df[1].interest > 0

\* the Remaining Capital shown before row i: the financed amount for row 1
ShownBefore(i) ==
    IF i = 1 THEN call.amount ELSE outcome.value.df[i - 1].remaining_capital

\* C6 as stated: for amount > 0 and periods >= 1 the Remaining Capital
\* values decrease strictly from row to row, the first below the amount.
C6_StrictlyDecreasing ==
    (ScheduleCall /\ call.amount > 0) =>
        \A i \in 1..Len(outcome.value.df) :
            outcome.value.df[i].remaining_capital < ShownBefore(i)

\* C6 amended: for amount > 0 and periods >= 1 the Remaining Capital values
\* never increase from row to row (the first is at most the amount), and
\* they decrease strictly at every row whose Capital is positive and that
\* starts from a positive Remaining Capital.
C6_NonIncreasing ==
    (ScheduleCall /\ call.amount > 0) =>
        /\ outcome.kind = "return"
        /\ \A i \in 1..Len(outcome.value.df) :
              LET row == outcome.value.df[i]
              IN  /\ row.remaining_capital <= ShownBefore(i)
                  /\ (row.capital > 0 /\ ShownBefore(i) > 0)
                        => row.remaining_capital < ShownBefore(i)

\* a schedule that decreases strictly down to 0 and then repeats the 0
C6_Witness ==
    /\ ScheduleCall
    /\ call.amount > 0
    /\ call.periods >= 3
    /\ outcome.kind = "return"
    /\ outcome.value.df[1].remaining_capital < call.amount
    /\ outcome.value.df[2].remaining_capital < outcome.value.df[1].remaining_capital
    /\ \E i \in 3..call.periods :
          outcome.value.df[i].remaining_capital = ShownBefore(i)

\* C7: the session computes a schedule only for an amount within the
\* tracked limit, a larger request shows the error and changes neither the
\* limit nor the plans, each schedule lowers the limit by the financed
\* amount, and the tracked limit is never negative.
C7_LimitGuarded ==
    /\ [](credit_limit # None => credit_limit[1] >= 0)
    /\ [][/\ call'.op = "compute_monthly_installments"
             => /\ credit_limit # None
                /\ call'.amount <= credit_limit[1]
                /\ dfs' = Append(dfs, outcome'.value.df)
                /\ credit_limit' = Some(credit_limit[1] - call'.amount)
          /\ dfs' # dfs => call'.op = "compute_monthly_installments"
          /\ (credit_limit' # credit_limit /\ call'.op # "compute_limit")
             => call'.op = "compute_monthly_installments"
          /\ ("exceeds" \in message' /\ call'.op # "compute_limit")
             => UNCHANGED <<credit_limit, dfs>>
         ]_vars

\* a request rejected after a draw-down that used the whole limit
C7_Witness ==
    /\ Len(dfs) >= 1
    /\ financed[Len(financed)] > 0
    /\ credit_limit = Some(0)
    /\ message = {"exceeds"}

\* C8: the stored periodic_rate is round((1 + taeg)^(30/365) - 1, 6) for the
\* stored taeg, for every calculator that can be constructed.
C8_RateDerivedFromTaeg ==
    periodic_rate = PeriodicRateOf(taeg)

\* C9: for every row i >= 2, Interest equals round(periodic_rate x Remaining
\* Capital shown in row i-1, 2), the balance carried into a row being the
\* Remaining Capital shown by the row before it.
C9_InterestOnShownRemaining ==
    ScheduleCall =>
        \A i \in 2..Len(outcome.value.df) :
            /\ Carried(call.amount, outcome.value.df, i - 1)
                  = outcome.value.df[i - 1].remaining_capital
            /\ \E up \in BOOLEAN :
                  outcome.value.df[i].interest
                      = Interest(periodic_rate,
                                 outcome.value.df[i - 1].remaining_capital, up)

\* C10: the tracked limit plus the amounts of the accumulated plans equals
\* the limit returned by the most recent Calculate Credit Limit.
C10_LimitPlusFinanced ==
    credit_limit # None =>
        credit_limit[1] + SumSeq(financed) = computed_limit[1]
====
